---- MODULE Spec2Model ----
(***************************************************************************)
(* Model of the %rsync line magic of mpkernel (src/mpkernel/magic/rsync.py) *)
(* rsync_magic, FileList (filter, as_map) and local_list.                  *)
(*                                                                         *)
(* Python strings are sequences of one-character strings, so that          *)
(* str.split(","), repr/eval of the path field and fnmatch are computed    *)
(* character by character as the code computes them.                       *)
(***************************************************************************)
EXTENDS Integers, Sequences, FiniteSets

\* ------------------------------------------------------------------ bounds
MaxSize == 2
MaxTime == 2
MaxRuns == 2
MaxFaults == 1
MaxCut == 1

\* ------------------------------------------------------- string primitives
\* ord() of the characters that occur in the model's strings
Ord(c) ==
  CASE c = "\"" -> 34 [] c = "'" -> 39 [] c = "*" -> 42 [] c = "," -> 44
    [] c = "-" -> 45 [] c = "." -> 46 [] c = "/" -> 47
    [] c = "0" -> 48 [] c = "1" -> 49 [] c = "2" -> 50 [] c = "3" -> 51
    [] c = "4" -> 52 [] c = "5" -> 53 [] c = "6" -> 54 [] c = "7" -> 55
    [] c = "8" -> 56 [] c = "9" -> 57 [] c = "?" -> 63
    [] c = "D" -> 68 [] c = "F" -> 70 [] c = "\\" -> 92
    [] c = "a" -> 97 [] c = "b" -> 98 [] c = "d" -> 100 [] c = "l" -> 108
    [] c = "r" -> 114 [] c = "x" -> 120
    [] OTHER -> 127

\* Python's str < str: lexicographic by code point
RECURSIVE StrLess(_, _)
StrLess(a, b) ==
  IF b = <<>> THEN FALSE
  ELSE IF a = <<>> THEN TRUE
  ELSE IF Head(a) = Head(b) THEN StrLess(Tail(a), Tail(b))
  ELSE Ord(Head(a)) < Ord(Head(b))

\* sorted(S) for a set of strings
RECURSIVE Sorted(_)
Sorted(S) ==
  IF S = {} THEN <<>>
  ELSE LET m == CHOOSE x \in S : \A y \in S \ {x} : StrLess(x, y)
       IN  <<m>> \o Sorted(S \ {m})

Range(s) == { s[i] : i \in 1..Len(s) }

StartsWith(s, c) == s # <<>> /\ Head(s) = c

\* s.split(sep) for a one-character separator: the list of fields
RECURSIVE SplitAcc(_, _, _)
SplitAcc(s, sep, cur) ==
  IF s = <<>> THEN <<cur>>
  ELSE IF Head(s) = sep THEN <<cur>> \o SplitAcc(Tail(s), sep, <<>>)
  ELSE SplitAcc(Tail(s), sep, Append(cur, Head(s)))

Split(s, sep) == SplitAcc(s, sep, <<>>)

Digits == <<"0", "1", "2", "3", "4", "5", "6", "7", "8", "9">>

\* str(n) of a non-negative integer
RECURSIVE NatStr(_)
NatStr(n) ==
  IF n < 10 THEN <<Digits[n + 1]>>
  ELSE Append(NatStr(n \div 10), Digits[(n % 10) + 1])

\* the f-string conversion {n} of an int
IntStr(n) == IF n < 0 THEN <<"-">> \o NatStr(0 - n) ELSE NatStr(n)

DigitVal(c) == Ord(c) - 48

IsDigit(c) == Ord(c) >= 48 /\ Ord(c) <= 57

RECURSIVE NatVal(_)
NatVal(s) ==
  IF s = <<>> THEN 0
  ELSE 10 * NatVal(SubSeq(s, 1, Len(s) - 1)) + DigitVal(s[Len(s)])

\* int(s) succeeds on an optional sign followed by one or more digits
IsIntStr(s) ==
  LET body == IF StartsWith(s, "-") THEN Tail(s) ELSE s
  IN  body # <<>> /\ \A i \in 1..Len(body) : IsDigit(body[i])

IntVal(s) == IF StartsWith(s, "-") THEN 0 - NatVal(Tail(s)) ELSE NatVal(s)

\* repr(s) of a str: single quotes unless s has a ' and no "; the quote
\* character and the backslash are backslash-escaped
RECURSIVE Escape(_, _)
Escape(s, q) ==
  IF s = <<>> THEN <<>>
  ELSE IF Head(s) = q \/ Head(s) = "\\"
       THEN <<"\\", Head(s)>> \o Escape(Tail(s), q)
       ELSE <<Head(s)>> \o Escape(Tail(s), q)

Repr(s) ==
  LET q == IF "'" \in Range(s) /\ ~("\"" \in Range(s)) THEN "\"" ELSE "'"
  IN  <<q>> \o Escape(s, q) \o <<q>>

\* eval(s) of one string literal: [ok, val]; ok is FALSE where eval raises
\* (no opening quote, unterminated literal, text after the closing quote)
RECURSIVE Unescape(_, _)
Unescape(s, q) ==
  IF s = <<>> THEN [ok |-> FALSE, val |-> <<>>]
  ELSE IF Head(s) = q THEN [ok |-> Tail(s) = <<>>, val |-> <<>>]
  ELSE IF Head(s) = "\\"
       THEN IF Len(s) < 2 THEN [ok |-> FALSE, val |-> <<>>]
            ELSE LET r == Unescape(Tail(Tail(s)), q)
                 IN  [ok |-> r.ok, val |-> <<s[2]>> \o r.val]
  ELSE LET r == Unescape(Tail(s), q)
       IN  [ok |-> r.ok, val |-> <<Head(s)>> \o r.val]

Eval(s) ==
  IF StartsWith(s, "'") \/ StartsWith(s, "\"")
  THEN Unescape(Tail(s), Head(s))
  ELSE [ok |-> FALSE, val |-> <<>>]

\* fnmatch(name, pat) on POSIX (normcase is the identity): * matches any run
\* of characters ("/" included), ? one character, anything else itself.
\* The model's patterns contain no [...] class.
RECURSIVE fnmatch(_, _)
fnmatch(name, pat) ==
  IF pat = <<>> THEN name = <<>>
  ELSE IF Head(pat) = "*"
       THEN fnmatch(name, Tail(pat)) \/ (name # <<>> /\ fnmatch(Tail(name), pat))
  ELSE /\ name # <<>>
       /\ (Head(pat) = "?" \/ Head(pat) = Head(name))
       /\ fnmatch(Tail(name), Tail(pat))

\* os.path.join(a, b) on POSIX
path_join(a, b) ==
  IF StartsWith(b, "/") THEN b
  ELSE IF a = <<>> \/ a[Len(a)] = "/" THEN a \o b
  ELSE a \o <<"/">> \o b

\* ------------------------------------------------------------ file trees
\* A file system is a set of nodes [comps, is_dir, size, mtime]; comps is the
\* list of path components below the file system's root, mtime is what
\* stat()[7] returns for the node.
Node(comps, is_dir, size, mtime) ==
  [comps |-> comps, is_dir |-> is_dir, size |-> size, mtime |-> mtime]

HasNode(fs, comps) == \E n \in fs : n.comps = comps

NodeAt(fs, comps) == CHOOSE n \in fs : n.comps = comps

\* the components named by a path string, relative to cwd unless absolute
PathComps(path) ==
  LET parts == Split(path, "/")
  IN  SelectSeq(parts, LAMBDA c : c # <<>> /\ c # <<".">>)

Resolve(cwd, path) ==
  IF StartsWith(path, "/") THEN PathComps(path) ELSE cwd \o PathComps(path)

\* os.listdir() of the directory at comps
listdir(fs, comps) ==
  { n.comps[Len(comps) + 1] :
      n \in { m \in fs : /\ Len(m.comps) = Len(comps) + 1
                         /\ SubSeq(m.comps, 1, Len(comps)) = comps } }

IsPrefix(p, q) == Len(p) <= Len(q) /\ SubSeq(q, 1, Len(p)) = p

\* one listing line  <kind>,<level>,<repr(path)>,<mtime>,<size>
Line(kind, level, full_path, mtime, size) ==
  <<kind, ",">> \o IntStr(level) \o <<",">> \o Repr(full_path) \o <<",">>
    \o IntStr(mtime) \o <<",">> \o IntStr(size)

\* local_list(path, files, level, full_path) run with working directory
\* cwd: [ok, files, cwd]. os.stat raises for a path in bad (a dangling link,
\* a node without permission) or a path that names nothing; the exception
\* leaves the walk at once, so os.chdir(up) of the callers is not reached.
RECURSIVE local_list(_, _, _, _, _, _, _)
RECURSIVE local_list_children(_, _, _, _, _, _, _)
RECURSIVE local_list_rest(_, _, _, _, _, _)
\* os.chdir(up) after the loop over the children, reached only if no
\* os.stat below raised
chdir_up(r, up) == IF r.ok THEN [r EXCEPT !.cwd = up] ELSE r

local_list(fs, bad, cwd, path, level, full_path, files) ==
  LET target == Resolve(cwd, path)
  IN  IF target \in bad \/ ~HasNode(fs, target)
      THEN [ok |-> FALSE, files |-> files, cwd |-> cwd]
      ELSE LET stat == NodeAt(fs, target)
           IN  IF stat.is_dir
               THEN chdir_up(
                      local_list_children(fs, bad, target,
                        Sorted(listdir(fs, target)), level + 1, full_path,
                        IF level >= 0
                        THEN Append(files,
                               Line("D", level, full_path, stat.mtime, 0))
                        ELSE files),
                      cwd)
               ELSE [ok    |-> TRUE,
                     files |-> Append(files, Line("F", level, full_path,
                                                  stat.mtime, stat.size)),
                     cwd   |-> cwd]

\* for p in sorted(os.listdir()): local_list(p, files, level+1, ...)
local_list_children(fs, bad, cwd, names, level, full_path, files) ==
  IF names = <<>> THEN [ok |-> TRUE, files |-> files, cwd |-> cwd]
  ELSE local_list_rest(fs, bad, Tail(names), level, full_path,
         local_list(fs, bad, cwd, Head(names), level,
                    full_path \o <<"/">> \o Head(names), files))

\* the rest of the loop after the walk r of one child
local_list_rest(fs, bad, names, level, full_path, r) ==
  IF ~r.ok THEN r
  ELSE local_list_children(fs, bad, r.cwd, names, level, full_path, r.files)

\* what the device's listing output looks like when it is malformed: the
\* last line lacks its size field, or carries a size that is no number
GarbleLine(kind, line) ==
  LET fields == Split(line, ",")
      cut    == Len(line) - Len(fields[Len(fields)])
  IN  IF kind = "fields" THEN SubSeq(line, 1, cut - 1)
      ELSE IF kind = "number" THEN SubSeq(line, 1, cut) \o <<"x">>
      ELSE line

Garble(kind, lines) ==
  IF lines = <<>> THEN lines
  ELSE [lines EXCEPT ![Len(lines)] = GarbleLine(kind, lines[Len(lines)])]

\* remote_list(kernel, p): the device walks the tree below p and streams one
\* line per entry in the same wire format; a root that names nothing lists
\* nothing. io.garble is how the output is malformed; io.cut >= 0 is the
\* number of lines received before the transport failed, which exec_remote
\* reports without raising.
remote_walk(r) == IF r.ok THEN r.files ELSE <<>>

remote_received(lines, cut) ==
  IF cut >= 0 /\ cut < Len(lines) THEN SubSeq(lines, 1, cut) ELSE lines

remote_list(fs, p, io) ==
  remote_received(
    Garble(io.garble,
           remote_walk(local_list(fs, {}, <<>>, p, -1, <<>>, <<>>))),
    io.cut)

\* ---------------------------------------------------------------- FileList
StripSlash(path) == IF StartsWith(path, "/") THEN Tail(path) ELSE path

\* the path FileList.filter matches: eval(f.split(",")[2]), "/" stripped
FilterPath(f) ==
  LET fields == Split(f, ",")
  IN  IF Len(fields) < 3 THEN [ok |-> FALSE, val |-> <<>>]
      ELSE LET e == Eval(fields[3])
           IN  [ok |-> e.ok, val |-> StripSlash(e.val)]

\* FilterKeeps with the exclude loop run before the include loop
FilterKeeps_IncludeLast(f, include, exclude) ==
  LET path == FilterPath(f).val
      inc0 == StartsWith(f, "D")
      inc1 == IF \E e \in 1..Len(exclude) : fnmatch(path, exclude[e])
              THEN FALSE ELSE inc0
  IN  inc1 \/ \E i \in 1..Len(include) : fnmatch(path, include[i])

\* the verdict inc[n] of FileList.filter for line f: directories start TRUE,
\* any include match sets TRUE, then any exclude match sets FALSE
FilterKeeps(f, include, exclude) ==
  LET path == FilterPath(f).val
      inc0 == StartsWith(f, "D")
      inc1 == inc0 \/ \E i \in 1..Len(include) : fnmatch(path, include[i])
  IN  IF \E e \in 1..Len(exclude) : fnmatch(path, exclude[e])
      THEN FALSE ELSE inc1

\* FileList.filter: [ok, val]; ok is FALSE where a line makes eval raise
filter(files, include, exclude) ==
  IF \E n \in 1..Len(files) : ~FilterPath(files[n]).ok
  THEN [ok |-> FALSE, val |-> <<>>]
  ELSE [ok |-> TRUE,
        val |-> SelectSeq(files, LAMBDA f : FilterKeeps(f, include, exclude))]

\* the (key, value) pair FileList.as_map makes of one line
MapEntry(f, abs_path) ==
  LET fields == Split(f, ",")
  IN  IF Len(fields) # 5 THEN [ok |-> FALSE]
      ELSE LET e == Eval(fields[3])
           IN  IF ~(e.ok /\ IsIntStr(fields[2]) /\ IsIntStr(fields[4])
                         /\ IsIntStr(fields[5]))
               THEN [ok |-> FALSE]
               ELSE [ok |-> TRUE,
                     key |-> StripSlash(e.val),
                     val |-> [is_dir   |-> fields[1] = <<"D">>,
                              level    |-> IntVal(fields[2]),
                              mtime    |-> IntVal(fields[4]),
                              size     |-> IntVal(fields[5]),
                              abs_path |-> abs_path]]

\* dict union  a | b : b's entries win
Merge(a, b) ==
  [k \in DOMAIN a \cup DOMAIN b |-> IF k \in DOMAIN b THEN b[k] ELSE a[k]]

EmptyMap == [k \in {} |-> 0]

\* FileList.as_map: [ok, val]; a later line with the same path overwrites
RECURSIVE as_map(_, _)
as_map(files, abs_path) ==
  IF files = <<>> THEN [ok |-> TRUE, val |-> EmptyMap]
  ELSE LET e    == MapEntry(files[Len(files)], abs_path)
           rest == as_map(SubSeq(files, 1, Len(files) - 1), abs_path)
       IN  IF ~(e.ok /\ rest.ok) THEN [ok |-> FALSE, val |-> EmptyMap]
           ELSE [ok |-> TRUE,
                 val |-> Merge(rest.val, [k \in {e.key} |-> e.val])]

\* FileList.__init__: for p in path: list, filter, as_map, self.files |= ...
\* Returns [ok, files, listing, filtered, cwd]; listing and filtered keep,
\* per root p, what local_list/remote_list returned and what filter kept.
\* io is the environment of the walk: [bad, cwd, garble, cut].
DefaultLocalPath == << <<".", "/", "l">> >>

DefaultRemotePath == << <<"/">> >>

\* self.files |= self.as_map(filtered_list, p): as_map raising ends the
\* construction
FileListMapped(acc, file_list, filtered_list, map) ==
  IF map.ok
  THEN [ok       |-> TRUE,
        files    |-> Merge(acc.files, map.val),
        listing  |-> Append(acc.listing, file_list),
        filtered |-> Append(acc.filtered, filtered_list),
        cwd      |-> acc.cwd]
  ELSE [acc EXCEPT !.ok = FALSE, !.listing = Append(acc.listing, file_list)]

\* filtered_list = self.filter(file_list, include, exclude)
FileListFiltered(acc, p, file_list, filtered_list) ==
  IF filtered_list.ok
  THEN FileListMapped(acc, file_list, filtered_list.val,
                      as_map(filtered_list.val, p))
  ELSE [acc EXCEPT !.ok = FALSE, !.listing = Append(acc.listing, file_list)]

\* file_list = local_list(p): a raised os.stat ends the construction
FileListWalked(acc, p, include, exclude, walk) ==
  IF walk.ok
  THEN FileListFiltered(acc, p, walk.files,
                        filter(walk.files, include, exclude))
  ELSE [acc EXCEPT !.ok = FALSE, !.cwd = walk.cwd]

\* file_list = remote_list(kernel, p)
FileListReceived(acc, p, include, exclude, file_list) ==
  FileListFiltered(acc, p, file_list, filter(file_list, include, exclude))

RECURSIVE FileListLoop(_, _, _, _, _, _, _)
FileListLoop(local, path, include, exclude, fs, io, acc) ==
  IF path = <<>> \/ ~acc.ok THEN acc
  ELSE FileListLoop(local, Tail(path), include, exclude, fs, io,
         IF local
         THEN FileListWalked(acc, Head(path), include, exclude,
                local_list(fs, io.bad, acc.cwd, Head(path), -1, <<>>, <<>>))
         ELSE FileListReceived(acc, Head(path), include, exclude,
                remote_list(fs, Head(path), io)))

FileList(local, path, include, exclude, fs, io) ==
  LET roots == IF Len(path) = 0
               THEN (IF local THEN DefaultLocalPath ELSE DefaultRemotePath)
               ELSE path
  IN  FileListLoop(local, roots, include, exclude, fs, io,
        [ok |-> TRUE, files |-> EmptyMap, listing |-> <<>>,
         filtered |-> <<>>, cwd |-> io.cwd])

\* iterating a str yields its characters, each a str of length one
Chars(s) == [i \in 1..Len(s) |-> <<s[i]>>]

\* ------------------------------------------------------------ diff engine
\* ToDel without the subtraction of the local keys
ToDel_AllRemote(lf, rf) == Sorted(DOMAIN rf)

ToDel(lf, rf) == Sorted(DOMAIN rf \ DOMAIN lf)

\* ToAdd without the subtraction of the remote keys
ToAdd_AllLocal(lf, rf) == Sorted(DOMAIN lf)

ToAdd(lf, rf) == Sorted(DOMAIN lf \ DOMAIN rf)

\* NeedsUpdate without the skip of local directories (lines 149-150)
NeedsUpdate_NoDirSkip(l, r) ==
  \/ r.is_dir # l.is_dir
  \/ r.level # l.level
  \/ r.size # l.size
  \/ r.mtime < l.mtime

\* NeedsUpdate with size as the only change signal
NeedsUpdate_SizeOnly(l, r) ==
  /\ ~l.is_dir
  /\ r.size # l.size

NeedsUpdate(l, r) ==
  /\ ~l.is_dir
  /\ \/ r.is_dir # l.is_dir
     \/ r.level # l.level
     \/ r.size # l.size
     \/ r.mtime < l.mtime

ToUpd(lf, rf) ==
  Sorted({ u \in DOMAIN rf \cap DOMAIN lf : NeedsUpdate(lf[u], rf[u]) })

\* -------------------------------------------------- remote primitives
\* rm_rf(kernel, path): removes the node at path and everything below it;
\* a path that names nothing removes nothing
rm_rf(fs, path) ==
  LET target == Resolve(<<>>, path)
  IN  IF target = <<>> THEN { n \in fs : n.comps = <<>> }
      ELSE { n \in fs : ~IsPrefix(target, n.comps) }

\* the device clock at the time of an upload (the kernel sets the device
\* clock from the host when it connects)
UploadTime == MaxTime + 1

\* fput(kernel, src, dst): streams the bytes of local file src to dst. It
\* has no effect when dst names an existing directory or when the parent of
\* dst is not a directory. A source directory is created as a directory
\* unless dst exists.
fput(host, fs, src, dst) ==
  LET s      == Resolve(<<>>, src)
      d      == Resolve(<<>>, dst)
      parent == SubSeq(d, 1, Len(d) - 1)
  IN  IF \/ ~HasNode(host, s)
         \/ d = <<>>
         \/ ~HasNode(fs, parent)
         \/ ~NodeAt(fs, parent).is_dir
         \/ (HasNode(fs, d) /\ NodeAt(fs, d).is_dir)
         \/ (HasNode(fs, d) /\ NodeAt(host, s).is_dir)
      THEN fs
      ELSE LET n == NodeAt(host, s)
           IN  { m \in fs : m.comps # d }
                 \cup { IF n.is_dir THEN Node(d, TRUE, 0, UploadTime)
                        ELSE Node(d, FALSE, n.size, UploadTime) }

\* ---------------------------------------------------------------- inputs
NameA == <<"a">>

NameD == <<"d">>

NameX == <<"x">>

NameL == <<"l">>

\* the trees below a base directory: a is absent, a file or a directory;
\* d is absent, a file, an empty directory or a directory holding file x
TreesBelow(base) ==
  LET aOpts == {{}} \cup {{Node(base \o <<NameA>>, TRUE, 0, 1)}}
                 \cup { {Node(base \o <<NameA>>, FALSE, sz, t)} :
                          sz \in 1..MaxSize, t \in 1..MaxTime }
      dOpts == { {},
                 {Node(base \o <<NameD>>, FALSE, 1, 1)},
                 {Node(base \o <<NameD>>, TRUE, 0, 1)},
                 {Node(base \o <<NameD>>, TRUE, 0, 1),
                  Node(base \o <<NameD, NameX>>, FALSE, 1, 1)} }
  IN  { a \cup d : a \in aOpts, d \in dOpts }

HostTrees ==
  { {Node(<<>>, TRUE, 0, 1), Node(<<NameL>>, TRUE, 0, 1)} \cup t :
      t \in TreesBelow(<<NameL>>) }

DeviceTrees == { {Node(<<>>, TRUE, 0, 1)} \cup t : t \in TreesBelow(<<>>) }

Includes == { << <<"*">> >>, << <<"a">>, <<"d", "/", "?">> >> }

Excludes == { <<>>, << <<"d">> >>, << <<"a">>, <<"*", "x">> >> }

ArgSets ==
  [ dry_run     : BOOLEAN,
    upload_only : BOOLEAN,
    remote_path : { <<"/">> },
    include     : Includes,
    exclude     : Excludes,
    local_path  : { << NameL >> } ]

\* a file name holding a comma and a quote character
NameC == <<",", "'">>

\* further local trees: the local path l is itself a regular file; l holds
\* a file whose name has a comma and a quote
HostTreesExt ==
  HostTrees
    \cup { {Node(<<>>, TRUE, 0, 1), Node(<<NameL>>, FALSE, 1, 1)} }
    \cup { {Node(<<>>, TRUE, 0, 1), Node(<<NameL>>, TRUE, 0, 1),
            Node(<<NameL, NameC>>, FALSE, 1, 1)} \cup t :
             t \in { {}, {Node(<<NameL, NameA>>, FALSE, 1, 1)} } }

\* one departure from the plain run at a time: a remote root other than "/",
\* transport failures, a malformed remote listing, a local node that
\* os.stat cannot read
ExtScenarios ==
  { [remote_path |-> rp, faults |-> 0, garble |-> "none", bad |-> {}] :
      rp \in { <<"/">>, <<"/", "d">> } }
    \cup { [remote_path |-> <<"/">>, faults |-> n, garble |-> "none",
            bad |-> {}] : n \in 1..MaxFaults }
    \cup { [remote_path |-> <<"/">>, faults |-> 0, garble |-> g,
            bad |-> {}] : g \in {"fields", "number"} }
    \cup { [remote_path |-> <<"/">>, faults |-> 0, garble |-> "none",
            bad |-> {b}] : b \in { <<NameL, NameA>>, <<NameL, NameD, NameX>> } }

\* ----------------------------------------------------------------- state
\* cwd is the working directory of the kernel process, unreadable the local
\* paths on which os.stat raises, faults the number of transport failures
\* that can still happen, garble how the device's listing is malformed
VARIABLES host, device, args, pc, run, local_files, remote_files,
          listing, filtered, to_del, to_add, to_upd, i, out,
          cwd, unreadable, faults, garble

vars == <<host, device, args, pc, run, local_files, remote_files,
          listing, filtered, to_del, to_add, to_upd, i, out,
          cwd, unreadable, faults, garble>>

NoList == [local |-> <<>>, remote |-> <<>>]

\* what rsync_magic prints and the remote operations it issues, in order;
\* f is the plan path the loop is at
Ev(op, f, src, dst) == [op |-> op, f |-> f, src |-> src, dst |-> dst]

Printed(text, f) == Ev("print", f, <<>>, text)

Start ==
  /\ pc = "list_local"
  /\ cwd = <<>>
  /\ run = 1
  /\ local_files = EmptyMap
  /\ remote_files = EmptyMap
  /\ listing = NoList
  /\ filtered = NoList
  /\ to_del = <<>>
  /\ to_add = <<>>
  /\ to_upd = <<>>
  /\ i = 1
  /\ out = <<>>

Init ==
  /\ host \in HostTrees
  /\ device \in DeviceTrees
  /\ args \in ArgSets
  /\ unreadable = {}
  /\ faults = 0
  /\ garble = "none"
  /\ Start

InitExt ==
  /\ host \in HostTreesExt
  /\ device \in DeviceTrees
  /\ \E sc \in ExtScenarios : \E inc \in Includes :
       /\ args = [dry_run |-> FALSE, upload_only |-> FALSE,
                  remote_path |-> sc.remote_path, include |-> inc,
                  exclude |-> <<>>, local_path |-> << NameL >>]
       /\ unreadable = sc.bad
       /\ faults = sc.faults
       /\ garble = sc.garble
  /\ \A b \in unreadable : HasNode(host, b)
  /\ Start

\* whether the next call on the channel meets a transport failure
Failing == IF faults > 0 THEN BOOLEAN ELSE {FALSE}

\* exec_remote catches the TransportError, prints it and returns
Caught(fail, f, what) == IF fail THEN <<Ev("error", f, <<>>, what)>> ELSE <<>>

Spend(fail) == faults' = IF fail THEN faults - 1 ELSE faults

\* PhaseFrom with the Add block moved in front of the Delete block
PhaseFrom_AddFirst(k, del, add, upd) ==
  IF k <= 1 /\ Len(add) > 0 THEN "add"
  ELSE IF (k <= 1 \/ k = 3) /\ Len(del) > 0 THEN "delete"
  ELSE IF k <= 3 /\ Len(upd) > 0 THEN "update"
  ELSE "finish"

\* the first phase at or after phase k that has work, "finish" if none
PhaseFrom(k, del, add, upd) ==
  IF k <= 1 /\ Len(del) > 0 THEN "delete"
  ELSE IF k <= 2 /\ Len(add) > 0 THEN "add"
  ELSE IF k <= 3 /\ Len(upd) > 0 THEN "update"
  ELSE "finish"

\* rsync_magic lines 124-130
ListLocal ==
  /\ pc = "list_local"
  /\ \E fl \in { FileList(TRUE, args.local_path, args.include,
                            args.exclude, host,
                            [bad |-> unreadable, cwd |-> cwd,
                             garble |-> "none", cut |-> -1]) } :
         /\ pc' = IF fl.ok THEN "list_remote" ELSE "error"
         /\ local_files' = fl.files
         /\ listing' = [listing EXCEPT !.local = fl.listing]
         /\ filtered' = [filtered EXCEPT !.local = fl.filtered]
         /\ cwd' = fl.cwd
  /\ UNCHANGED <<host, device, args, run, remote_files, to_del, to_add,
                 to_upd, i, out, unreadable, faults, garble>>

\* the roots FileList walks for path=args.remote_path: a str, so the loop
\* of FileList.__init__ iterates its characters
RemoteRoots ==
  IF Len(args.remote_path) = 0 THEN DefaultRemotePath
  ELSE Chars(args.remote_path)

\* rsync_magic lines 131-137, one iteration of the loop of
\* FileList.__init__ (one remote_list call on the channel)
ListRemote ==
  /\ pc = "list_remote"
  /\ LET r == Len(listing.remote) + 1
         p == RemoteRoots[r]
     IN  \E fail \in Failing :
         \E cut \in (IF fail THEN 0..MaxCut ELSE {-1}) :
         \E fl \in { FileListLoop(FALSE, <<p>>, args.include, args.exclude,
                       device,
                       [bad |-> {}, cwd |-> <<>>, garble |-> garble,
                        cut |-> cut],
                       [ok |-> TRUE, files |-> remote_files,
                        listing |-> listing.remote,
                        filtered |-> filtered.remote, cwd |-> <<>>]) } :
               /\ pc' = IF ~fl.ok THEN "error"
                        ELSE IF r = Len(RemoteRoots) THEN "diff" ELSE pc
               /\ remote_files' = fl.files
               /\ listing' = [listing EXCEPT !.remote = fl.listing]
               /\ filtered' = [filtered EXCEPT !.remote = fl.filtered]
               /\ out' = out \o Caught(fail, <<>>, p)
               /\ Spend(fail)
  /\ UNCHANGED <<host, device, args, run, local_files, to_del, to_add,
                 to_upd, i, cwd, unreadable, garble>>

\* Diff without the early return of lines 160-162
Diff_NoEarlyReturn ==
  /\ pc = "diff"
  /\ LET del == ToDel(local_files, remote_files)
         add == ToAdd(local_files, remote_files)
         upd == ToUpd(local_files, remote_files)
     IN  /\ to_del' = del
         /\ to_add' = add
         /\ to_upd' = upd
         /\ out' = out
         /\ pc' = PhaseFrom(1, del, add, upd)
  /\ i' = 1
  /\ UNCHANGED <<host, device, args, run, local_files, remote_files,
                 listing, filtered, cwd, unreadable, faults, garble>>

\* rsync_magic lines 139-162
Diff ==
  /\ pc = "diff"
  /\ LET del == ToDel(local_files, remote_files)
         add == ToAdd(local_files, remote_files)
         upd == ToUpd(local_files, remote_files)
     IN  /\ to_del' = del
         /\ to_add' = add
         /\ to_upd' = upd
         /\ IF Len(del) + Len(add) + Len(upd) = 0
            THEN /\ out' = Append(out, Printed("match", <<>>))
                 /\ pc' = "done"
            ELSE /\ out' = out
                 /\ pc' = PhaseFrom(1, del, add, upd)
  /\ i' = 1
  /\ UNCHANGED <<host, device, args, run, local_files, remote_files,
                 listing, filtered, cwd, unreadable, faults, garble>>

Header(text) == IF i = 1 THEN <<Printed(text, <<>>)>> ELSE <<>>

Advance(k, list) ==
  IF i < Len(list)
  THEN /\ i' = i + 1
       /\ pc' = pc
  ELSE /\ i' = 1
       /\ pc' = PhaseFrom(k + 1, to_del, to_add, to_upd)

\* DeleteStep without the upload_only test
DeleteStep_IgnoreUploadOnly ==
  /\ pc = "delete"
  /\ LET f == to_del[i]
     IN  IF ~args.dry_run
         THEN \E fail \in Failing :
                /\ out' = out \o Header("Delete")
                            \o <<Printed("item", f), Ev("rm_rf", f, <<>>, f)>>
                            \o Caught(fail, f, f)
                /\ device' = IF fail THEN device ELSE rm_rf(device, f)
                /\ Spend(fail)
         ELSE /\ out' = out \o Header("Delete") \o <<Printed("item", f)>>
              /\ device' = device
              /\ faults' = faults
  /\ Advance(1, to_del)
  /\ UNCHANGED <<host, args, run, local_files, remote_files, listing,
                 filtered, to_del, to_add, to_upd, cwd, unreadable, garble>>

\* rsync_magic lines 164-169, one iteration of the loop
DeleteStep ==
  /\ pc = "delete"
  /\ LET f == to_del[i]
     IN  IF ~args.dry_run /\ ~args.upload_only
         THEN \E fail \in Failing :
                /\ out' = out \o Header("Delete")
                            \o <<Printed("item", f), Ev("rm_rf", f, <<>>, f)>>
                            \o Caught(fail, f, f)
                /\ device' = IF fail THEN device ELSE rm_rf(device, f)
                /\ Spend(fail)
         ELSE /\ out' = out \o Header("Delete") \o <<Printed("item", f)>>
              /\ device' = device
              /\ faults' = faults
  /\ Advance(1, to_del)
  /\ UNCHANGED <<host, args, run, local_files, remote_files, listing,
                 filtered, to_del, to_add, to_upd, cwd, unreadable, garble>>

\* the upload of plan path f, lines 176-178 and 185-187
Upload(f) ==
  LET src == path_join(local_files[f].abs_path, f)
      dst == path_join(<<args.remote_path[1]>>, f)
  IN  \E fail \in Failing :
        /\ out' = out \o Header(IF pc = "add" THEN "Add" ELSE "Update")
                      \o <<Printed("item", f), Ev("fput", f, src, dst)>>
                      \o Caught(fail, f, dst)
        /\ device' = IF fail THEN device ELSE fput(host, device, src, dst)
        /\ Spend(fail)

Preview(f) ==
  /\ out' = out \o Header(IF pc = "add" THEN "Add" ELSE "Update")
                \o <<Printed("item", f)>>
  /\ device' = device
  /\ faults' = faults

\* AddStep without the dry_run test
AddStep_IgnoreDryRun ==
  /\ pc = "add"
  /\ Upload(to_add[i])
  /\ Advance(2, to_add)
  /\ UNCHANGED <<host, args, run, local_files, remote_files, listing,
                 filtered, to_del, to_add, to_upd, cwd, unreadable, garble>>

\* rsync_magic lines 171-178, one iteration of the loop
AddStep ==
  /\ pc = "add"
  /\ IF ~args.dry_run THEN Upload(to_add[i]) ELSE Preview(to_add[i])
  /\ Advance(2, to_add)
  /\ UNCHANGED <<host, args, run, local_files, remote_files, listing,
                 filtered, to_del, to_add, to_upd, cwd, unreadable, garble>>

\* rsync_magic lines 180-187, one iteration of the loop
UpdateStep ==
  /\ pc = "update"
  /\ IF ~args.dry_run THEN Upload(to_upd[i]) ELSE Preview(to_upd[i])
  /\ Advance(3, to_upd)
  /\ UNCHANGED <<host, args, run, local_files, remote_files, listing,
                 filtered, to_del, to_add, to_upd, cwd, unreadable, garble>>

\* rsync_magic line 189
Finish ==
  /\ pc = "finish"
  /\ out' = Append(out, Printed("reset", <<>>))
  /\ pc' = "done"
  /\ UNCHANGED <<host, device, args, run, local_files, remote_files,
                 listing, filtered, to_del, to_add, to_upd, i, cwd,
                 unreadable, faults, garble>>

\* the user runs %rsync again with the same arguments; every FileList and
\* plan is rebuilt from scratch
Rerun ==
  /\ pc = "done"
  /\ run < MaxRuns
  /\ run' = run + 1
  /\ pc' = "list_local"
  /\ local_files' = EmptyMap
  /\ remote_files' = EmptyMap
  /\ listing' = NoList
  /\ filtered' = NoList
  /\ to_del' = <<>>
  /\ to_add' = <<>>
  /\ to_upd' = <<>>
  /\ i' = 1
  /\ out' = <<>>
  /\ UNCHANGED <<host, device, args, cwd, unreadable, faults, garble>>

Next ==
  \/ ListLocal
  \/ ListRemote
  \/ Diff
  \/ DeleteStep
  \/ AddStep
  \/ UpdateStep
  \/ Finish
  \/ Rerun

Spec == Init /\ [][Next]_vars

SpecExt == InitExt /\ [][Next]_vars

TypeOK ==
  /\ pc \in {"list_local", "list_remote", "diff", "delete", "add", "update",
             "finish", "done", "error"}
  /\ run \in 1..MaxRuns

\* ------------------------------------------------------------- properties
Planned == pc \in {"delete", "add", "update", "finish", "done"}

IsCall(e) == e.op \in {"rm_rf", "fput"}

Calls == { k \in 1..Len(out) : IsCall(out[k]) }

Seen(op, f) == \E k \in 1..Len(out) : out[k].op = op /\ out[k].f = f

Reported(f) ==
  \E k \in 1..Len(out) : out[k] = Printed("item", f)

\* the phase a remote operation belongs to: 1 a delete of a toDelete path,
\* 2 an upload of a toAdd path, 3 any operation on a toUpdate path
PhaseOf(e) ==
  IF e.f \in Range(to_upd) THEN 3
  ELSE IF e.op = "fput" /\ e.f \in Range(to_add) THEN 2
  ELSE IF e.op = "rm_rf" /\ e.f \in Range(to_del) THEN 1
  ELSE 0

\* C1: in every run the remote operations come in three phases in fixed
\* order: every rm_rf of a toDelete path precedes every fput of a toAdd
\* path, which precedes every operation on a toUpdate path.
C1_PhaseOrder ==
  \A j \in Calls : \A k \in Calls :
    j < k => /\ PhaseOf(out[j]) <= PhaseOf(out[k])
             /\ PhaseOf(out[j]) > 0

C1_Witness ==
  /\ pc = "done"
  /\ \E j \in Calls : \E k \in Calls : \E m \in Calls :
       /\ j < k /\ k < m
       /\ PhaseOf(out[j]) = 1 /\ PhaseOf(out[k]) = 2 /\ PhaseOf(out[m]) = 3

\* C2: every fput to a toUpdate path is preceded, in the same run, by an
\* rm_rf of that same path.
C2_RemoveThenUpload ==
  \A k \in Calls :
    (out[k].op = "fput" /\ out[k].f \in Range(to_upd))
      => \E j \in Calls : j < k /\ out[j].op = "rm_rf" /\ out[j].f = out[k].f

\* C3: with dry_run set no rm_rf and no fput is issued, and a finished run
\* has reported every path of toDelete, toAdd and toUpdate.
C3_DryRun ==
  args.dry_run =>
    /\ Calls = {}
    /\ pc = "done" =>
         \A f \in Range(to_del) \cup Range(to_add) \cup Range(to_upd) :
           Reported(f)

C3_Witness ==
  /\ args.dry_run
  /\ pc = "done"
  /\ Len(to_del) > 0 /\ Len(to_add) > 0 /\ Len(to_upd) > 0
  /\ \A f \in Range(to_del) \cup Range(to_add) \cup Range(to_upd) : Reported(f)

\* C4: with upload_only set and dry_run not set no rm_rf is issued, and a
\* finished run has uploaded every toAdd and toUpdate path and has reported
\* every toDelete path.
C4_UploadOnly ==
  (args.upload_only /\ ~args.dry_run) =>
    /\ \A k \in Calls : out[k].op # "rm_rf"
    /\ pc = "done" =>
         /\ \A f \in Range(to_add) \cup Range(to_upd) : Seen("fput", f)
         /\ \A f \in Range(to_del) : Reported(f)

C4_Witness ==
  /\ args.upload_only /\ ~args.dry_run
  /\ pc = "done"
  /\ Len(to_del) > 0 /\ Len(to_add) > 0 /\ Len(to_upd) > 0
  /\ \A f \in Range(to_add) \cup Range(to_upd) : Seen("fput", f)

Both == DOMAIN local_files \cap DOMAIN remote_files

\* C5 (as claimed): a path in both maps is in toUpdate if and only if its
\* size differs between the two maps.
C5_SizeOnly ==
  Planned =>
    \A u \in Both :
      u \in Range(to_upd) <=> remote_files[u].size # local_files[u].size

\* C5 (amended): a path in both maps is in toUpdate if and only if its local
\* entry is not a directory and kind, level or size differ or the remote
\* mtime is strictly older than the local mtime.
C5_UpdateRule ==
  Planned =>
    \A u \in Both :
      u \in Range(to_upd) <=>
        /\ ~local_files[u].is_dir
        /\ \/ remote_files[u].is_dir # local_files[u].is_dir
           \/ remote_files[u].level # local_files[u].level
           \/ remote_files[u].size # local_files[u].size
           \/ remote_files[u].mtime < local_files[u].mtime

C5_Witness ==
  /\ Planned
  /\ \E u \in Both :
       /\ remote_files[u].size = local_files[u].size
       /\ remote_files[u].is_dir = local_files[u].is_dir
       /\ remote_files[u].mtime < local_files[u].mtime
       /\ u \in Range(to_upd)

PlanEmpty == Len(to_del) + Len(to_add) + Len(to_upd) = 0

\* C6: after one sync with dry_run and upload_only both off, the diff the
\* next run computes against the updated device tree is empty.
C6_Convergence ==
  (run >= 2 /\ Planned /\ ~args.dry_run /\ ~args.upload_only) => PlanEmpty

\* the lines a side's walks returned, and the lines its filter kept
Listed(side) == UNION { Range(listing[side][r]) : r \in 1..Len(listing[side]) }

Kept(side) == UNION { Range(filtered[side][r]) : r \in 1..Len(filtered[side]) }

\* the third field of a listing line, decoded, leading "/" stripped
RelPath(line) == StripSlash(Eval(Split(line, ",")[3]).val)

Matches(path, pats) == \E n \in 1..Len(pats) : fnmatch(path, pats[n])

\* C7: filter keeps every Directory entry, whatever the include and exclude
\* patterns are.
C7_DirsAlwaysKept ==
  \A side \in {"local", "remote"} :
    \A line \in Listed(side) :
      Head(line) = "D" => line \in Kept(side)

\* C8: filter keeps a File entry if and only if its relative path matches at
\* least one include pattern and no exclude pattern.
C8_FileVerdict ==
  \A side \in {"local", "remote"} :
    \A line \in Listed(side) :
      Head(line) = "F" =>
        (line \in Kept(side) <=>
           /\ Matches(RelPath(line), args.include)
           /\ ~Matches(RelPath(line), args.exclude))

C8_Witness ==
  \E line \in Listed("local") :
    /\ Head(line) = "F"
    /\ Matches(RelPath(line), args.include)
    /\ Matches(RelPath(line), args.exclude)
    /\ line \notin Kept("local")

Listings == pc \notin {"list_local", "list_remote", "error"}

\* C9 (as claimed): no key of a FileList map denotes a directory; the key
\* set is exactly the relative paths of the filtered File entries.
C9_NoDirectoryKeys ==
  Listings =>
    /\ DOMAIN local_files =
         { RelPath(line) : line \in { l \in Kept("local") : Head(l) = "F" } }
    /\ DOMAIN remote_files =
         { RelPath(line) : line \in { l \in Kept("remote") : Head(l) = "F" } }

\* C9 (amended): the key set of a FileList map is exactly the relative
\* paths of all filtered entries, directories included, and a path that is a
\* directory on the local side is never in toUpdate.
C9_KeysAreKeptPaths ==
  Listings =>
    /\ DOMAIN local_files = { RelPath(line) : line \in Kept("local") }
    /\ DOMAIN remote_files = { RelPath(line) : line \in Kept("remote") }
    /\ \A u \in Range(to_upd) : ~local_files[u].is_dir

C9_Witness ==
  /\ Planned
  /\ \E k \in DOMAIN local_files :
       local_files[k].is_dir /\ k \in Range(to_add)
  /\ \E k \in Both :
       local_files[k].is_dir /\ ~remote_files[k].is_dir
         /\ k \notin Range(to_upd)

\* C10: toDelete is exactly the keys only in the remote map, toAdd exactly
\* the keys only in the local map, toUpdate holds only keys of both, and no
\* path is in more than one of the three.
C10_Partition ==
  Planned =>
    LET lk == DOMAIN local_files
        rk == DOMAIN remote_files
    IN  /\ Range(to_del) = rk \ lk
        /\ Range(to_add) = lk \ rk
        /\ Range(to_upd) \subseteq lk \cap rk
        /\ Range(to_del) \cap Range(to_add) = {}
        /\ Range(to_del) \cap Range(to_upd) = {}
        /\ Range(to_add) \cap Range(to_upd) = {}

C10_Witness ==
  /\ pc = "delete"
  /\ i = 1
  /\ Len(to_del) > 0 /\ Len(to_add) > 0 /\ Len(to_upd) > 0

\* C11: diff symmetry: the toDelete list of (local, remote) is the toAdd list
\* of the swapped pair (remote, local), and the toAdd list of (local, remote)
\* is the toDelete list of the swapped pair.
C11_DiffSymmetry ==
  Planned =>
    /\ to_del = ToAdd(remote_files, local_files)
    /\ to_add = ToDel(remote_files, local_files)

C11_Witness ==
  /\ pc = "delete"
  /\ Len(to_del) > 0 /\ Len(to_add) > 0
  /\ Both # {}
  /\ to_del = ToAdd(remote_files, local_files)

\* C12: with an empty plan no rm_rf and no fput is issued and the run ends
\* having reported only that the trees match.
C12_EmptyPlan ==
  (Planned /\ PlanEmpty) =>
    /\ pc = "done"
    /\ Calls = {}
    /\ out = <<Printed("match", <<>>)>>

C12_Witness ==
  /\ pc = "done"
  /\ PlanEmpty
  /\ DOMAIN local_files # {}
  /\ out = <<Printed("match", <<>>)>>

\* C13: a local file whose name holds a comma and a quote character is
\* listed, filtered and mapped without error, and its map key is its path.
C13_WireRoundTrip ==
  (/\ pc # "list_local"
   /\ HasNode(host, <<NameL, NameC>>)
   /\ unreadable = {}
   /\ args.include = << <<"*">> >>)
    => /\ pc # "error"
       /\ NameC \in DOMAIN local_files

\* path g lies beneath path k
Beneath(g, k) == Len(g) > Len(k) + 1 /\ SubSeq(g, 1, Len(k) + 1) = k \o <<"/">>

\* C14: when a path is a file on one side and a directory on the other, a
\* sync that is neither dry-run nor upload-only issues an rm_rf of that path
\* before any fput to it or to a path beneath it.
C14_KindChangeDeletesFirst ==
  (Planned /\ ~args.dry_run /\ ~args.upload_only) =>
    \A k \in Both :
      local_files[k].is_dir # remote_files[k].is_dir =>
        \A m \in Calls :
          (out[m].op = "fput" /\ (out[m].f = k \/ Beneath(out[m].f, k)))
            => \E j \in Calls :
                 j < m /\ out[j].op = "rm_rf" /\ out[j].f = k

\* a listing line with a wrong number of fields or a non-numeric level,
\* mtime or size
Malformed(line) ==
  LET fields == Split(line, ",")
  IN  \/ Len(fields) # 5
      \/ ~IsIntStr(fields[2])
      \/ ~IsIntStr(fields[4])
      \/ ~IsIntStr(fields[5])

\* C15: if a line of a listing is malformed, building the FileList fails and
\* the run issues no rm_rf and no fput.
C15_MalformedAborts ==
  (\E line \in Listed("local") \cup Listed("remote") : Malformed(line))
    => /\ pc = "error"
       /\ Calls = {}

\* C16: once the channel has reported a transport failure, the run issues no
\* further rm_rf or fput.
C16_AbortOnTransportFailure ==
  \A j \in 1..Len(out) : \A k \in 1..Len(out) :
    (j < k /\ out[j].op = "error") => ~IsCall(out[k])

\* C17: every entry local_list emits has depth >= 0 and a non-empty path.
C17_EntriesBelowRoot ==
  \A line \in Listed("local") :
    LET fields == Split(line, ",")
    IN  /\ IntVal(fields[2]) >= 0
        /\ fields[3] # Repr(<<>>)

\* C18: every rm_rf and every fput for plan path f names the node at
\* remote_path joined with f.
C18_TargetsUnderRemoteRoot ==
  \A k \in Calls :
    Resolve(<<>>, out[k].dst)
      = Resolve(<<>>, path_join(args.remote_path, out[k].f))

\* C19: the remote map is built from the listing of one root, the whole
\* remote_path, and no toDelete path names a node outside that root.
C19_OneRemoteRoot ==
  Listings =>
    /\ Len(listing.remote) = 1
    /\ \A n \in 1..Len(out) :
         out[n].op = "rm_rf" =>
           IsPrefix(Resolve(<<>>, args.remote_path),
                    Resolve(<<>>, out[n].dst))

\* C20: whenever local_list has ended, by return or by a raised os.stat
\* failure, the working directory is the one the call started in.
C20_CwdRestored == cwd = <<>>

====
